---- MODULE Spec2Model ----
(***************************************************************************)
(* CARD:Live dashboard: the record loader (CardLiveDataLoader), the        *)
(* immutable dataset aggregate (CardLiveData) and the taxonomy enricher    *)
(* (AddTaxonomyModifier), modelled as operations over a store of Dataset   *)
(* objects.                                                                *)
(*                                                                         *)
(* A pandas frame indexed by 'filename' is modelled as                     *)
(*   - main table: [columns |-> set of column names,                       *)
(*                  rows    |-> [keys -> [columns -> value]]]              *)
(*     (one row per sample key);                                           *)
(*   - a per-category table: a set of rows [filename, n, val], n being the *)
(*     position of the hit in the sample's hit list and val the value of   *)
(*     the category's flattened column (NaN for a null cell).              *)
(* Row order is not modelled except through n.                             *)
(***************************************************************************)
EXTENDS Integers, Sequences, FiniteSets, TLC

\* ------------------------------------------------------------------ bounds
NumFiles == 2        \* file names that may appear in the input directory
MaxDatasets == 3     \* Dataset objects alive in the process

Files == 1..NumFiles

NaN == "NaN"         \* pandas' null in a string-valued column

\* CardLiveDataLoader.JSON_DATA_FIELDS, in source order
JSON_DATA_FIELDS == <<"rgi_main", "rgi_kmer", "mlst", "lmat">>

RECURSIVE SeqRange(_)
SeqRange(s) == IF s = <<>> THEN {} ELSE {Head(s)} \cup SeqRange(Tail(s))

\* --------------------------------------------------------- input documents
\* One JSON document per file.  kind "ok": parses and has every field;
\* "badjson": json.load raises; "nogeo": parses but has no geo_area_code.
\* missing: the category keys the document does not have (or has as null).
Doc(kind, ts, geo, rgi, kmer, mlst, lmat) ==
    [kind |-> kind, timestamp |-> ts, geo_area_code |-> geo,
     rgi_main |-> rgi, rgi_kmer |-> kmer, mlst |-> mlst, lmat |-> lmat,
     missing |-> {}]

GoodDocs ==
    { Doc("ok", 1, 10, <<"Perfect">>, <<"Ecoli">>, <<"st1">>, <<"Ecoli", "Salmonella">>),
      Doc("ok", 2, 10, <<"Strict", "Perfect">>, <<>>, <<"-">>, <<"n/a">>),
      Doc("ok", 2, 20, <<>>, <<"Salmonella">>, <<>>, <<>>) }

BadDocs ==
    { Doc("badjson", 1, 10, <<>>, <<>>, <<>>, <<>>),
      Doc("nogeo", 1, 10, <<"Strict">>, <<>>, <<>>, <<>>) }

Docs == GoodDocs \cup BadDocs

\* Time arguments (start, end, date_threshold): every instant at or just after
\* a document's timestamp.
TimeArgs == UNION {{d.timestamp, d.timestamp + 1} : d \in GoodDocs}

\* ------------------------------------------------------- call results
\* A call either returns a value or raises.
Ok(v) == [ok |-> TRUE, val |-> v, err |-> ""]
Raise(e) == [ok |-> FALSE, val |-> {}, err |-> e]

\* ------------------------------------------------------------ the loader
\* A list-valued cell of full_df: the list, or null.
Cell(list) == [na |-> FALSE, list |-> list]
NaCell == [na |-> TRUE, list |-> <<>>]

\* pd.json_normalize(json_data).set_index('filename'): one row per document.
\* A key absent from a document gives a null cell, modelled as a column the
\* row does not have.
json_normalize(json_data) ==
    [f \in DOMAIN json_data |->
        LET d == json_data[f]
            lists == [c \in SeqRange(JSON_DATA_FIELDS) |->
                        IF c \in d.missing THEN NaCell ELSE Cell(d[c])]
        IN  IF d.kind = "nogeo"
            THEN [c \in {"timestamp"} \cup DOMAIN lists |->
                    IF c = "timestamp" THEN d.timestamp ELSE lists[c]]
            ELSE [c \in {"timestamp", "geo_area_code"} \cup DOMAIN lists |->
                    IF c = "timestamp" THEN d.timestamp
                    ELSE IF c = "geo_area_code" THEN d.geo_area_code
                    ELSE lists[c]]]

_rows_with_empty_list(df, col_name) ==
    [index \in DOMAIN df |-> Len(df[index][col_name].list) = 0]

\* len(row[col_name]) in _rows_with_empty_list raises when the cell is not a
\* list: json_normalize leaves a null where a document has no such key.
_rows_with_empty_list_raises(df, cols) ==
    \E index \in DOMAIN df, c \in SeqRange(cols) : df[index][c].na

_replace_empty_list_na(df, cols) ==
    [f \in DOMAIN df |->
        [c \in DOMAIN df[f] |->
            IF c \in SeqRange(cols) /\ _rows_with_empty_list(df, c)[f]
            THEN NaCell ELSE df[f][c]]]

RECURSIVE JoinAnd(_)
JoinAnd(names) ==
    IF Len(names) = 0 THEN ""
    ELSE IF Len(names) = 1 THEN names[1]
    ELSE names[1] \o " and " \o JoinAnd(Tail(names))

\* Mutant of AnalysisValidLoop: the two df.loc assignments the other way round.
RECURSIVE AnalysisValidLoop_swapped(_, _, _)
AnalysisValidLoop_swapped(row, analysis_valid, cols) ==
    IF cols = <<>> THEN analysis_valid
    ELSE LET col == Head(cols)
             second == IF ~row[col].na /\ analysis_valid = "None"
                       THEN col ELSE analysis_valid
             first == IF ~row[col].na /\ ~(second = "None")
                      THEN second \o " and " \o col ELSE second
         IN  AnalysisValidLoop_swapped(row, first, Tail(cols))

\* The loop body of _create_analysis_valid_column for one row: the two
\* df.loc assignments, in source order.
RECURSIVE AnalysisValidLoop(_, _, _)
AnalysisValidLoop(row, analysis_valid, cols) ==
    IF cols = <<>> THEN analysis_valid
    ELSE LET col == Head(cols)
             first == IF ~row[col].na /\ ~(analysis_valid = "None")
                      THEN analysis_valid \o " and " \o col ELSE analysis_valid
             second == IF ~row[col].na /\ first = "None" THEN col ELSE first
         IN  AnalysisValidLoop(row, second, Tail(cols))

_create_analysis_valid_column(df, analysis_cols) ==
    [f \in DOMAIN df |->
        LET v == AnalysisValidLoop(df[f], "None", analysis_cols)
            replaced == IF v = JoinAnd(JSON_DATA_FIELDS) THEN "all" ELSE v
        IN  [c \in DOMAIN df[f] \cup {"analysis_valid"} |->
                IF c = "analysis_valid" THEN replaced ELSE df[f][c]]]

\* Mutant of _expand_column: an inner join, which loses the samples whose cell
\* is null.
_expand_column_inner(df, column, na_char) ==
    UNION { IF df[f][column].na
            THEN {}
            ELSE {[filename |-> f, n |-> i,
                   val |-> IF df[f][column].list[i] = na_char
                           THEN NaN ELSE df[f][column].list[i]]
                    : i \in 1..Len(df[f][column].list)}
          : f \in DOMAIN df }

\* df[column].explode().apply(pd.Series), na_char replaced by null, left-merged
\* onto df: one row per hit, and one all-null row for a sample whose cell is
\* null.  Only the category's own flattened column is kept in the model.
_expand_column(df, column, na_char) ==
    UNION { IF df[f][column].na
            THEN {[filename |-> f, n |-> 1, val |-> NaN]}
            ELSE {[filename |-> f, n |-> i,
                   val |-> IF df[f][column].list[i] = na_char
                           THEN NaN ELSE df[f][column].list[i]]
                    : i \in 1..Len(df[f][column].list)}
          : f \in DOMAIN df }

\* full_df.drop(columns=JSON_DATA_FIELDS) as the main table
DropDataFields(df) ==
    [columns |-> {"timestamp", "geo_area_code", "analysis_valid"},
     rows |-> [f \in DOMAIN df |->
                 [c \in DOMAIN df[f] \ SeqRange(JSON_DATA_FIELDS) |-> df[f][c]]]]

\* ------------------------------------------------ Resistance-Call Index
\* RGIParser wraps the primary resistance table (df_rgi).
RGIParser(df_rgi) == df_rgi

RGIParser_files(rgi_parser) == {r.filename : r \in rgi_parser}

RGIParser_select_by_files(rgi_parser, files) ==
    RGIParser({r \in rgi_parser : r.filename \in files})

RGIParser_select(rgi_parser, by, kwargs) ==
    IF by = "cutoff"
    THEN IF kwargs.level = "all" THEN Ok(rgi_parser)
         ELSE IF kwargs.level = "perfect"
              THEN Ok(RGIParser({r \in rgi_parser : r.val = "Perfect"}))
         ELSE IF kwargs.level = "strict"
              THEN Ok(RGIParser({r \in rgi_parser : r.val = "Strict"}))
         ELSE Raise("Exception")
    ELSE Raise("Exception")

\* ------------------------------------------------------------ CardLiveData
\* __init__: the main table is rebuilt (reset_index/set_index) and
\* geo_area_code is cast to int64, which raises on a null or missing column.
\* pd.to_datetime leaves an instant unchanged; timestamps are instants here.
CardLiveData(main_df, rgi_parser, rgi_kmer_df, lmat_df, mlst_df) ==
    IF \E k \in DOMAIN main_df.rows : "geo_area_code" \notin DOMAIN main_df.rows[k]
    THEN Raise("ValueError")
    ELSE Ok([main_df |-> main_df, rgi_df |-> rgi_parser,
             rgi_kmer_df |-> rgi_kmer_df, lmat_df |-> lmat_df, mlst_df |-> mlst_df])

files(self) == DOMAIN self.main_df.rows

Keys(table) == {r.filename : r \in table}

\* DataFrame.loc[files] on the main table and on a per-category table: every
\* row whose key is listed; a listed key that is not in the index raises.
\* (files is a Python set, taken as a list of labels as pandas 1.x does.)
LocMain(df, keys) ==
    IF keys \subseteq DOMAIN df.rows
    THEN Ok([columns |-> df.columns, rows |-> [k \in keys |-> df.rows[k]]])
    ELSE Raise("KeyError")

Loc(table, keys) ==
    IF keys \subseteq Keys(table)
    THEN Ok({r \in table : r.filename \in keys})
    ELSE Raise("KeyError")

\* The outcome of a method call: the call's result and the receiver's state
\* after it.
Call(self, result) == [result |-> result, self |-> self]

\* Mutant of select_from_rgi_parser: the lmat table is passed on unnarrowed.
select_from_rgi_parser_keeps_lmat(self, rgi_parser) ==
    LET keys == RGIParser_files(rgi_parser)
        main_df_subset == LocMain(self.main_df, keys)
        rgi_kmer_subset == Loc(self.rgi_kmer_df, keys)
        mlst_subset == Loc(self.mlst_df, keys)
    IN  Call(self,
             IF main_df_subset.ok /\ rgi_kmer_subset.ok /\ mlst_subset.ok
             THEN CardLiveData(main_df_subset.val, rgi_parser, rgi_kmer_subset.val,
                               self.lmat_df, mlst_subset.val)
             ELSE Raise("KeyError"))

select_from_rgi_parser(self, rgi_parser) ==
    LET keys == RGIParser_files(rgi_parser)
        main_df_subset == LocMain(self.main_df, keys)
        rgi_kmer_subset == Loc(self.rgi_kmer_df, keys)
        lmat_subset == Loc(self.lmat_df, keys)
        mlst_subset == Loc(self.mlst_df, keys)
    IN  Call(self,
             IF main_df_subset.ok /\ rgi_kmer_subset.ok /\ lmat_subset.ok /\ mlst_subset.ok
             THEN CardLiveData(main_df_subset.val, rgi_parser, rgi_kmer_subset.val,
                               lmat_subset.val, mlst_subset.val)
             ELSE Raise("KeyError"))

\* Mutant of select_by_files: the Dataset's own index is passed on instead of
\* the narrowed one.
select_by_files_unnarrowed(self, keys) ==
    select_from_rgi_parser(self, self.rgi_df)

select_by_files(self, keys) ==
    select_from_rgi_parser(self, RGIParser_select_by_files(self.rgi_df, keys))

select_by_time(self, start, end) ==
    select_by_files(self,
        {k \in DOMAIN self.main_df.rows :
            self.main_df.rows[k].timestamp >= start /\ self.main_df.rows[k].timestamp <= end})

\* Mutant of select: a selector that is not recognized selects nothing away
\* and hands back the Dataset as it is.
select_lenient(self, table, by, kwargs) ==
    IF table = "main" /\ by = "time"
    THEN select_by_time(self, kwargs.start, kwargs.end)
    ELSE IF table = "rgi"
    THEN LET rgi_parser_subset == RGIParser_select(self.rgi_df, by, kwargs)
         IN  IF rgi_parser_subset.ok
             THEN select_from_rgi_parser(self, rgi_parser_subset.val)
             ELSE Call(self, rgi_parser_subset)
    ELSE Call(self, Ok(self))

select(self, table, by, kwargs) ==
    IF table = "main"
    THEN IF by = "time" THEN select_by_time(self, kwargs.start, kwargs.end)
         ELSE Call(self, Raise("Exception"))
    ELSE IF table = "rgi"
    THEN LET rgi_parser_subset == RGIParser_select(self.rgi_df, by, kwargs)
         IN  IF rgi_parser_subset.ok
             THEN select_from_rgi_parser(self, rgi_parser_subset.val)
             ELSE Call(self, rgi_parser_subset)
    ELSE Call(self, Raise("Exception"))

na_code == -10
AntarcticaCode == 10

\* Mutant of replace_antarctica_with_na: the main table is written in place,
\* without the copy.
replace_antarctica_with_na_inplace(self, date_threshold) ==
    LET main_df == [self.main_df EXCEPT !.rows =
                      [k \in DOMAIN self.main_df.rows |->
                          IF self.main_df.rows[k].geo_area_code = AntarcticaCode
                             /\ self.main_df.rows[k].timestamp < date_threshold
                          THEN [self.main_df.rows[k] EXCEPT !["geo_area_code"] = na_code]
                          ELSE self.main_df.rows[k]]]
    IN  Call([self EXCEPT !.main_df = main_df],
             CardLiveData(main_df, RGIParser(self.rgi_df), self.rgi_kmer_df,
                          self.lmat_df, self.mlst_df))

\* Mutant of replace_antarctica_with_na: the cutoff instant itself is recoded.
replace_antarctica_with_na_inclusive(self, date_threshold) ==
    LET copy == self.main_df
        main_df == [copy EXCEPT !.rows =
                      [k \in DOMAIN copy.rows |->
                          IF copy.rows[k].geo_area_code = AntarcticaCode
                             /\ copy.rows[k].timestamp <= date_threshold
                          THEN [copy.rows[k] EXCEPT !["geo_area_code"] = na_code]
                          ELSE copy.rows[k]]]
    IN  Call(self, CardLiveData(main_df, RGIParser(self.rgi_df), self.rgi_kmer_df,
                                self.lmat_df, self.mlst_df))

replace_antarctica_with_na(self, date_threshold) ==
    LET copy == self.main_df
        main_df == [copy EXCEPT !.rows =
                      [k \in DOMAIN copy.rows |->
                          IF copy.rows[k].geo_area_code = AntarcticaCode
                             /\ copy.rows[k].timestamp < date_threshold
                          THEN [copy.rows[k] EXCEPT !["geo_area_code"] = na_code]
                          ELSE copy.rows[k]]]
    IN  Call(self, CardLiveData(main_df, RGIParser(self.rgi_df), self.rgi_kmer_df,
                                self.lmat_df, self.mlst_df))

\* ------------------------------------------------------ Taxonomy Enricher
\* TaxonomicParser.create_file_matches: per sample key, the label of the
\* first-listed row of each of the two taxonomy tables, and whether they match.
FirstLabel(table, k) ==
    IF k \notin Keys(table) THEN NaN
    ELSE (CHOOSE r \in table :
            /\ r.filename = k
            /\ \A o \in table : o.filename = k => r.n <= o.n).val

create_file_matches(df_rgi_kmer, df_lmat) ==
    [columns |-> {"lmat.taxonomy_label", "rgi_kmer.taxonomy_label", "matches"},
     rows |-> [k \in Keys(df_rgi_kmer) \cup Keys(df_lmat) |->
        [c \in {"lmat.taxonomy_label", "rgi_kmer.taxonomy_label", "matches"} |->
            IF c = "lmat.taxonomy_label" THEN FirstLabel(df_lmat, k)
            ELSE IF c = "rgi_kmer.taxonomy_label" THEN FirstLabel(df_rgi_kmer, k)
            ELSE IF FirstLabel(df_lmat, k) = FirstLabel(df_rgi_kmer, k)
                 THEN "True" ELSE "False"]]]

\* DataFrame.rename(columns={old: new}) for the two renamed columns
RenamedFrom(c) ==
    IF c = "lmat_taxonomy" THEN "lmat.taxonomy_label"
    ELSE IF c = "rgi_kmer_taxonomy" THEN "rgi_kmer.taxonomy_label"
    ELSE c

RenamedTo(c) ==
    IF c = "lmat.taxonomy_label" THEN "lmat_taxonomy"
    ELSE IF c = "rgi_kmer.taxonomy_label" THEN "rgi_kmer_taxonomy"
    ELSE c

RenameTaxonomyColumns(df) ==
    [columns |-> {RenamedTo(c) : c \in df.columns},
     rows |-> [k \in DOMAIN df.rows |->
                 [c \in {RenamedTo(o) : o \in df.columns} |-> df.rows[k][RenamedFrom(c)]]]]

DropColumns(df, cols) ==
    [columns |-> df.columns \ cols,
     rows |-> [k \in DOMAIN df.rows |-> [c \in df.columns \ cols |-> df.rows[k][c]]]]

\* left.merge(right, left_index=True, right_index=True, how='left') with the
\* default suffixes: a column name present on both sides is kept twice, as
\* <name>_x (left) and <name>_y (right); every left row is kept, and the right
\* columns are null for a key the right frame does not have.
LeftName(c, overlap) == IF c \in overlap THEN c \o "_x" ELSE c
RightName(c, overlap) == IF c \in overlap THEN c \o "_y" ELSE c

merge(left, right) ==
    LET overlap == left.columns \cap right.columns
        lcols == {LeftName(c, overlap) : c \in left.columns}
        rcols == {RightName(c, overlap) : c \in right.columns}
    IN  [columns |-> lcols \cup rcols,
         rows |-> [k \in DOMAIN left.rows |->
            [c \in lcols \cup rcols |->
                IF c \in lcols
                THEN left.rows[k][CHOOSE o \in left.columns : LeftName(o, overlap) = c]
                ELSE IF k \in DOMAIN right.rows
                THEN right.rows[k][CHOOSE o \in right.columns : RightName(o, overlap) = c]
                ELSE NaN]]]

modify(data) ==
    LET matches_df == DropColumns(
            RenameTaxonomyColumns(create_file_matches(data.rgi_kmer_df, data.lmat_df)),
            {"matches"})
        main_df == merge(data.main_df, matches_df)
    IN  Call(data, CardLiveData(main_df, RGIParser(data.rgi_df), data.rgi_kmer_df,
                                data.lmat_df, data.mlst_df))

\* --------------------------------------------------------- read_data
Min(S) == CHOOSE m \in S : \A o \in S : m <= o

\* Mutant of read_data: a malformed document is skipped and the rest loaded.
read_data_skips_malformed(directory_exists, input_files, dsk) ==
    LET good == {f \in input_files : dsk[f].kind = "ok"}
        json_data == [f \in good |-> dsk[f]]
        normalized == json_normalize(json_data)
        emptied == _replace_empty_list_na(normalized, JSON_DATA_FIELDS)
        full_df == _create_analysis_valid_column(emptied, JSON_DATA_FIELDS)
    IN  IF ~directory_exists
        THEN [result |-> Raise("Exception"), opened |-> {}]
        ELSE IF good = {}
        THEN [result |-> Raise("KeyError"), opened |-> input_files]
        ELSE [result |-> CardLiveData(DropDataFields(full_df),
                            RGIParser(_expand_column(full_df, "rgi_main", "n/a")),
                            _expand_column(full_df, "rgi_kmer", "n/a"),
                            _expand_column(full_df, "lmat", "n/a"),
                            _expand_column(full_df, "mlst", "-")),
              opened |-> input_files]

\* input_files: the file names the iterator still yields; dsk: the documents
\* in the directory.  Files are opened in listing order up to the first one
\* json.load rejects.
read_data(directory_exists, input_files, dsk) ==
    LET bad == {f \in input_files : dsk[f].kind = "badjson"}
        json_data == [f \in input_files |-> dsk[f]]
        normalized == json_normalize(json_data)
        emptied == _replace_empty_list_na(normalized, JSON_DATA_FIELDS)
        full_df == _create_analysis_valid_column(emptied, JSON_DATA_FIELDS)
    IN  IF ~directory_exists
        THEN [result |-> Raise("Exception"), opened |-> {}]
        ELSE IF bad # {}
        THEN [result |-> Raise("JSONDecodeError"),
              opened |-> {f \in input_files : f <= Min(bad)}]
        ELSE IF input_files = {}
        THEN [result |-> Raise("KeyError"), opened |-> {}]
        ELSE IF _rows_with_empty_list_raises(normalized, JSON_DATA_FIELDS)
        THEN [result |-> Raise("TypeError"), opened |-> input_files]
        ELSE [result |-> CardLiveData(DropDataFields(full_df),
                            RGIParser(_expand_column(full_df, "rgi_main", "n/a")),
                            _expand_column(full_df, "rgi_kmer", "n/a"),
                            _expand_column(full_df, "lmat", "n/a"),
                            _expand_column(full_df, "mlst", "-")),
              opened |-> input_files]

\* --------------------------------------------------------- update_data
\* Python values compared by update_data: the Path objects glob yields and
\* the str keys files() returns.  Values of different types are never equal.
PosixPath(name) == [type |-> "PosixPath", name |-> name]
Str(name) == [type |-> "str", name |-> name]
py_eq(a, b) == a.type = b.type /\ a.name = b.name
intersection(A, B) == {a \in A : \E b \in B : py_eq(a, b)}

\* Path(directory).glob('*'): the entries of the directory, none if it is absent
glob(directory_exists, dsk) == IF directory_exists THEN DOMAIN dsk ELSE {}

NoData == [none |-> TRUE, data |-> {}]
Some(d) == [none |-> FALSE, data |-> d]

\* Mutant of update_data: the comparison is inverted.
update_data_flipped(existing_data, directory_exists, dsk) ==
    LET input_files == glob(directory_exists, dsk)
    IN  IF existing_data.none
        THEN [returned |-> "new"] @@ read_data(directory_exists, input_files, dsk)
        ELSE LET existing_files == {Str(k) : k \in files(existing_data.data)}
                 listed == {PosixPath(f) : f \in input_files}
             IN  IF Cardinality(intersection(listed, existing_files)) # 0
                 THEN [returned |-> "existing", result |-> Ok(existing_data.data),
                       opened |-> {}]
                 ELSE [returned |-> "new"] @@ read_data(directory_exists, {}, dsk)

\* Mutant of update_data: an incremental update that rewrites the main table
\* of the existing Dataset in place and returns that same object.
update_data_inplace(existing_data, directory_exists, dsk) ==
    LET input_files == glob(directory_exists, dsk)
        r == read_data(directory_exists, input_files, dsk)
    IN  IF existing_data.none
        THEN [returned |-> "new"] @@ r
        ELSE IF r.result.ok
        THEN [returned |-> "existing",
              result |-> Ok([existing_data.data EXCEPT !.main_df = r.result.val.main_df]),
              opened |-> r.opened]
        ELSE [returned |-> "existing", result |-> Ok(existing_data.data),
              opened |-> r.opened]

\* returned: "existing" when the call returns its argument, "new" when it
\* returns what read_data built.  set(input_files) exhausts the generator, so
\* the reload after the comparison reads no entry.
update_data(existing_data, directory_exists, dsk) ==
    LET input_files == glob(directory_exists, dsk)
    IN  IF existing_data.none
        THEN [returned |-> "new"] @@ read_data(directory_exists, input_files, dsk)
        ELSE LET existing_files == {Str(k) : k \in files(existing_data.data)}
                 listed == {PosixPath(f) : f \in input_files}
             IN  IF Cardinality(intersection(listed, existing_files)) = 0
                 THEN [returned |-> "existing", result |-> Ok(existing_data.data),
                       opened |-> {}]
                 ELSE [returned |-> "new"] @@ read_data(directory_exists, {}, dsk)

\* ------------------------------------------------------------------ state
VARIABLES
    dir_exists,   \* whether the input directory exists
    disk,         \* the documents in it: [file names present -> Docs]
    store,        \* the Dataset objects of the process, in creation order
    active,       \* the process-wide Dataset (the class attribute of CardLiveData): index into store, 0 for None
    loaded,       \* history: the Datasets read_data has built
    reader,       \* a reader of the active Dataset
    lastOp        \* the last call made: its arguments and its outcome

vars == <<dir_exists, disk, store, active, loaded, reader, lastOp>>

TableNames == <<"main_df", "rgi_df", "rgi_kmer_df", "lmat_df", "mlst_df">>

NoOp ==
    [op |-> "none", src |-> 0, table |-> "", by |-> "",
     kwargs |-> [start |-> 0, end |-> 0, level |-> ""], keys |-> {},
     date_threshold |-> 0, ok |-> TRUE, err |-> "", ret |-> 0, before |-> <<>>,
     returned |-> "", opened |-> {}, listing |-> {}, dir |-> TRUE, malformed |-> FALSE]

IdleReader == [pc |-> "idle", ds |-> 0, view |-> <<>>, refreshed |-> FALSE]

GoodListings == [Files -> GoodDocs]

\* ------------------------------------------- operations on a loaded Dataset
\* A call on store[i]: the receiver is left as the call leaves it, and a
\* returned Dataset becomes a new object.  A raised exception is not caught:
\* it ends the sequence of calls.
Apply(i, c, op) ==
    /\ Len(store) < MaxDatasets
    /\ lastOp.ok
    /\ store' = IF c.result.ok
                THEN Append([store EXCEPT ![i] = c.self], c.result.val)
                ELSE [store EXCEPT ![i] = c.self]
    /\ lastOp' = [op EXCEPT !.src = i, !.ok = c.result.ok, !.err = c.result.err,
                            !.ret = IF c.result.ok THEN Len(store) + 1 ELSE 0,
                            !.before = store]
    /\ UNCHANGED <<dir_exists, disk, active, loaded, reader>>

Kwargs(start, end, level) == [start |-> start, end |-> end, level |-> level]

\* select(table, by, **kwargs) on store[i].
Select(i, table, by, kwargs) ==
    Apply(i, select(store[i], table, by, kwargs),
          [NoOp EXCEPT !.op = "select", !.table = table, !.by = by,
                       !.kwargs = kwargs])

SelectTime(i, start, end) == Select(i, "main", "time", Kwargs(start, end, ""))

SelectRgi(i, by, level) == Select(i, "rgi", by, Kwargs(0, 0, level))

SelectOther(i, table, by) == Select(i, table, by, Kwargs(0, 0, ""))

SelectByFiles(i, keys) ==
    Apply(i, select_by_files(store[i], keys),
          [NoOp EXCEPT !.op = "select_by_files", !.keys = keys])

ReplaceAntarctica(i, date_threshold) ==
    Apply(i, replace_antarctica_with_na(store[i], date_threshold),
          [NoOp EXCEPT !.op = "replace_antarctica_with_na",
                       !.date_threshold = date_threshold])

Modify(i) ==
    Apply(i, modify(store[i]), [NoOp EXCEPT !.op = "modify"])

\* A process that has loaded a directory of NumFiles well-formed documents.
Init ==
    /\ dir_exists = TRUE
    /\ disk \in GoodListings
    /\ store = <<read_data(TRUE, DOMAIN disk, disk).result.val>>
    /\ active = 1
    /\ loaded = {store[1]}
    /\ reader = IdleReader
    /\ lastOp = NoOp

Next ==
    \/ \E i \in 1..Len(store), start \in TimeArgs, end \in TimeArgs :
            SelectTime(i, start, end)
    \/ \E i \in 1..Len(store), level \in {"all", "perfect", "strict"} :
            SelectRgi(i, "cutoff", level)
    \/ \E i \in 1..Len(store) : SelectRgi(i, "name", "all")
    \/ \E i \in 1..Len(store), table \in {"main", "lmat", "mlst", "rgi_kmer"},
          by \in {"time", "cutoff", "name"} :
            ~(table = "main" /\ by = "time") /\ SelectOther(i, table, by)
    \/ \E i \in 1..Len(store), keys \in SUBSET Files : SelectByFiles(i, keys)
    \/ \E i \in 1..Len(store), date_threshold \in TimeArgs :
            ReplaceAntarctica(i, date_threshold)
    \/ \E i \in 1..Len(store) : Modify(i)

Spec == Init /\ [][Next]_vars

\* ------------------------------------------------ the refreshing process
\* The pipeline writes a document into the input directory.  File names are
\* interchangeable, so they are taken in order.
AddFile(f, d) ==
    /\ dir_exists
    /\ f \notin DOMAIN disk
    /\ \A g \in Files : g < f => g \in DOMAIN disk
    /\ disk' = [g \in DOMAIN disk \cup {f} |-> IF g = f THEN d ELSE disk[g]]
    /\ UNCHANGED <<dir_exists, store, active, loaded, reader, lastOp>>

MkDir ==
    /\ ~dir_exists
    /\ dir_exists' = TRUE
    /\ UNCHANGED <<disk, store, active, loaded, reader, lastOp>>

RmDir ==
    /\ dir_exists
    /\ dir_exists' = FALSE
    /\ disk' = <<>>
    /\ UNCHANGED <<store, active, loaded, reader, lastOp>>

\* The hosting process's refresh: the process-wide Dataset is replaced by what
\* update_data returns, in one assignment; a raised error leaves it as it was.
Refresh ==
    LET existing == IF active = 0 THEN NoData ELSE Some(store[active])
        r == update_data(existing, dir_exists, disk)
        fresh == r.result.ok /\ r.returned = "new"
    IN  /\ Len(store) < MaxDatasets
        /\ store' = IF fresh THEN Append(store, r.result.val)
                    ELSE IF r.result.ok THEN [store EXCEPT ![active] = r.result.val]
                    ELSE store
        /\ active' = IF fresh THEN Len(store) + 1 ELSE active
        /\ loaded' = IF fresh THEN loaded \cup {r.result.val} ELSE loaded
        /\ reader' = IF reader.pc = "reading"
                     THEN [reader EXCEPT !.refreshed = TRUE] ELSE reader
        /\ lastOp' = [NoOp EXCEPT !.op = "update_data", !.src = active,
                          !.ok = r.result.ok, !.err = r.result.err,
                          !.ret = IF fresh THEN Len(store) + 1
                                  ELSE IF r.result.ok THEN active ELSE 0,
                          !.before = store, !.returned = r.returned,
                          !.opened = r.opened,
                          !.listing = glob(dir_exists, disk), !.dir = dir_exists,
                          !.malformed = \E f \in DOMAIN disk : disk[f].kind # "ok"]
        /\ UNCHANGED <<dir_exists, disk>>

\* A reader takes the process-wide Dataset once and then reads its five tables
\* one after the other.
ReaderStart ==
    /\ reader.pc = "idle"
    /\ active # 0
    /\ reader' = [pc |-> "reading", ds |-> active, view |-> <<>>, refreshed |-> FALSE]
    /\ UNCHANGED <<dir_exists, disk, store, active, loaded, lastOp>>

ReaderRead ==
    /\ reader.pc = "reading"
    /\ Len(reader.view) < Len(TableNames)
    /\ reader' = [reader EXCEPT !.view =
                    Append(@, store[reader.ds][TableNames[Len(reader.view) + 1]])]
    /\ UNCHANGED <<dir_exists, disk, store, active, loaded, lastOp>>

ReaderDone ==
    /\ reader.pc = "reading"
    /\ Len(reader.view) = Len(TableNames)
    /\ reader' = IdleReader
    /\ UNCHANGED <<dir_exists, disk, store, active, loaded, lastOp>>

\* A process that has loaded nothing yet.
InitRefresh ==
    /\ dir_exists \in BOOLEAN
    /\ disk = <<>>
    /\ store = <<>>
    /\ active = 0
    /\ loaded = {}
    /\ reader = IdleReader
    /\ lastOp = NoOp

NextRefresh ==
    \/ \E f \in Files, d \in Docs : AddFile(f, d)
    \/ MkDir
    \/ RmDir
    \/ Refresh
    \/ ReaderStart
    \/ ReaderRead
    \/ ReaderDone

SpecRefresh == InitRefresh /\ [][NextRefresh]_vars

\* ------------------------------------------------------ a single load
\* Documents with every combination of empty and non-empty hit lists, and
\* documents that lack one category key next to full or empty lists.
ListDocs ==
    { Doc("ok", 1, 10, rgi, kmer, mlst, lmat) :
        rgi \in {<<>>, <<"Perfect">>}, kmer \in {<<>>, <<"Ecoli">>},
        mlst \in {<<>>, <<"-">>}, lmat \in {<<>>, <<"Ecoli", "n/a">>} }

CategoryDocs ==
    ListDocs \cup
    { [d EXCEPT !.missing = {c}] :
        c \in SeqRange(JSON_DATA_FIELDS),
        d \in { Doc("ok", 1, 10, <<>>, <<>>, <<>>, <<>>),
                Doc("ok", 1, 10, <<"Perfect">>, <<"Ecoli">>, <<"-">>, <<"Ecoli", "n/a">>) } }

\* read_data() on the input directory, once.
ReadData ==
    LET r == read_data(dir_exists, glob(dir_exists, disk), disk)
    IN  /\ lastOp.op = "none"
        /\ store' = IF r.result.ok THEN <<r.result.val>> ELSE store
        /\ lastOp' = [NoOp EXCEPT !.op = "read_data", !.ok = r.result.ok,
                          !.err = r.result.err,
                          !.ret = IF r.result.ok THEN 1 ELSE 0,
                          !.before = store, !.returned = "new",
                          !.opened = r.opened,
                          !.listing = glob(dir_exists, disk), !.dir = dir_exists]
        /\ UNCHANGED <<dir_exists, disk, active, loaded, reader>>

InitLoad ==
    /\ dir_exists = TRUE
    /\ disk \in [Files -> CategoryDocs]
    /\ store = <<>>
    /\ active = 0
    /\ loaded = {}
    /\ reader = IdleReader
    /\ lastOp = NoOp

NextLoad == ReadData

SpecLoad == InitLoad /\ [][NextLoad]_vars

\* ----------------------------------------------------------- properties
DataOps == {"select", "select_by_files", "replace_antarctica_with_na", "modify"}

\* The receiver of the last call as it was before the call, and what it returned.
Source == lastOp.before[lastOp.src]
Returned == store[lastOp.ret]

TableKeySets(d) ==
    {files(d), Keys(d.rgi_df), Keys(d.rgi_kmer_df), Keys(d.lmat_df), Keys(d.mlst_df)}

\* C1: in every Dataset reached from a loaded one by selection operations, the
\* Sample-Record table, the resistance-call table and the rgi_kmer, lmat and
\* mlst tables reference exactly the same set of sample keys.
C1_SameKeySetInAllTables ==
    \A i \in 1..Len(store) : Cardinality(TableKeySets(store[i])) = 1

\* Two selections in sequence, each narrowing or keeping a non-empty key set.
C1_Witness ==
    /\ Len(store) = 3
    /\ lastOp.op = "select" /\ lastOp.ok /\ lastOp.src = 2 /\ lastOp.ret = 3
    /\ files(store[2]) # files(store[1])
    /\ files(store[3]) # {}

\* C2: select_by_files(K) with K a subset of the Dataset's keys returns a
\* Dataset whose files() is K (the intersection of K with the keys), and none
\* of its tables has a row for a key outside it.
C2_SelectByFilesKeys ==
    (lastOp.op = "select_by_files" /\ lastOp.keys \subseteq files(Source))
        => /\ lastOp.ok
           /\ files(Returned) = lastOp.keys \cap files(Source)
           /\ \A S \in TableKeySets(Returned) : S \subseteq lastOp.keys \cap files(Source)

C2_Witness ==
    /\ lastOp.op = "select_by_files" /\ lastOp.ok
    /\ lastOp.keys # {} /\ lastOp.keys \subseteq files(Source)
    /\ lastOp.keys # files(Source)
    /\ \E r \in Source.rgi_df : r.filename \in lastOp.keys /\ r.val = NaN

\* C7: a Dataset operation leaves every Dataset that existed before the call,
\* the one it was called on included, exactly as it was.
C7_SourceUnchanged ==
    lastOp.op \in DataOps =>
        \A j \in 1..Len(lastOp.before) : store[j] = lastOp.before[j]

\* A call that returned a Dataset differing from its source.
C7_Witness ==
    /\ lastOp.op \in {"replace_antarctica_with_na", "modify"} /\ lastOp.ok
    /\ Returned.main_df # Source.main_df
    /\ Len(store) = 3 /\ lastOp.src = 1

\* C8 as claimed: after replace_antarctica_with_na, a sample's code is -10
\* exactly when its source code was 10 and its timestamp is before the cutoff.
C8_Original ==
    (lastOp.op = "replace_antarctica_with_na" /\ lastOp.ok) =>
        /\ files(Returned) = files(Source)
        /\ \A k \in files(Source) :
            Returned.main_df.rows[k].geo_area_code = na_code
                <=> /\ Source.main_df.rows[k].geo_area_code = AntarcticaCode
                    /\ Source.main_df.rows[k].timestamp < lastOp.date_threshold

\* C8 (amended): the key set is unchanged; a sample with code 10 and timestamp
\* strictly before the cutoff gets -10; a sample with code 10 at or after the
\* cutoff keeps 10; a sample with any other code (-10 included) keeps its code.
C8_Corrector ==
    (lastOp.op = "replace_antarctica_with_na" /\ lastOp.ok) =>
        /\ files(Returned) = files(Source)
        /\ \A k \in files(Source) :
            LET old == Source.main_df.rows[k]
                new == Returned.main_df.rows[k]
            IN  /\ (old.geo_area_code = AntarcticaCode
                        /\ old.timestamp < lastOp.date_threshold)
                      => new.geo_area_code = na_code
                /\ (old.geo_area_code = AntarcticaCode
                        /\ old.timestamp >= lastOp.date_threshold)
                      => new.geo_area_code = AntarcticaCode
                /\ old.geo_area_code # AntarcticaCode
                      => new.geo_area_code = old.geo_area_code
                /\ new.timestamp = old.timestamp

\* One call in which a sample coded 10 before the cutoff is recoded and a
\* sample coded 10 exactly at the cutoff is kept.
C8_Witness ==
    /\ lastOp.op = "replace_antarctica_with_na" /\ lastOp.ok
    /\ \E k \in files(Source) :
        /\ Source.main_df.rows[k].geo_area_code = AntarcticaCode
        /\ Returned.main_df.rows[k].geo_area_code = na_code
    /\ \E k \in files(Source) :
        /\ Source.main_df.rows[k].geo_area_code = AntarcticaCode
        /\ Source.main_df.rows[k].timestamp = lastOp.date_threshold
        /\ Returned.main_df.rows[k].geo_area_code = AntarcticaCode

\* C9: modify applied to an already enriched Dataset returns a Sample-Record
\* table with the same columns and values, holding exactly one lmat_taxonomy
\* and one rgi_kmer_taxonomy column.
C9_EnricherIdempotent ==
    (lastOp.op = "modify" /\ lastOp.ok /\ "lmat_taxonomy" \in Source.main_df.columns)
        => /\ Returned.main_df = Source.main_df
           /\ {"lmat_taxonomy", "rgi_kmer_taxonomy"} \subseteq Returned.main_df.columns

\* C10: select_by_files over a Dataset's own full key set returns a Dataset
\* equal to it in all five tables.
C10_SelectAllIsIdentity ==
    (lastOp.op = "select_by_files" /\ lastOp.keys = files(Source))
        => lastOp.ok /\ Returned = Source

C10_Witness ==
    /\ lastOp.op = "select_by_files" /\ lastOp.ok
    /\ lastOp.keys = files(Source) /\ Cardinality(lastOp.keys) = NumFiles
    /\ \E r \in Source.rgi_df : r.val = NaN
    /\ \E r \in Source.lmat_df : r.n > 1

\* C3: update_data called with an existing Dataset while the directory holds a
\* file whose key is not in existing.files() reloads and returns a Dataset
\* whose files() is the directory listing.
C3_ReloadsOnNewFile ==
    (/\ lastOp.op = "update_data" /\ lastOp.src # 0
     /\ \E f \in lastOp.listing : f \notin files(Source))
        => /\ lastOp.ok /\ lastOp.returned = "new"
           /\ files(Returned) = lastOp.listing

\* C4: update_data(D) called when every listed file is already in D.files()
\* returns D itself, unchanged, and opens no input file.
C4_NoOpWhenNothingNew ==
    (/\ lastOp.op = "update_data" /\ lastOp.src # 0
     /\ lastOp.listing \subseteq files(Source))
        => /\ lastOp.ok /\ lastOp.returned = "existing"
           /\ lastOp.ret = lastOp.src /\ Returned = Source
           /\ lastOp.opened = {}

C4_Witness ==
    /\ lastOp.op = "update_data" /\ lastOp.src # 0 /\ lastOp.ok
    /\ lastOp.listing # {} /\ lastOp.listing = files(Source)
    /\ active = lastOp.src

C11_MissingDirectoryFails ==
    (lastOp.op = "update_data" /\ ~lastOp.dir) => (~lastOp.ok /\ lastOp.ret = 0)

\* update_data on a missing directory handing back the existing Dataset.
C11_ReturnsExisting ==
    /\ lastOp.op = "update_data" /\ ~lastOp.dir
    /\ lastOp.ok /\ lastOp.returned = "existing" /\ lastOp.ret = lastOp.src

\* update_data without an existing Dataset on a missing directory.
C11_FirstLoadFails ==
    /\ lastOp.op = "update_data" /\ ~lastOp.dir /\ lastOp.src = 0
    /\ ~lastOp.ok /\ lastOp.err = "Exception"

\* The category names of a document whose hit list is not empty, in the order
\* of JSON_DATA_FIELDS.
PresentCategories(d) == SelectSeq(JSON_DATA_FIELDS, LAMBDA c : d[c] # <<>>)

\* C12: the analysis_valid of every loaded sample is "all" when its document
\* has a non-empty hit list in all four categories, "None" when it has one in
\* none, and otherwise the names of the categories with a non-empty list in the
\* order rgi_main, rgi_kmer, mlst, lmat joined by " and "; a document with
\* exactly rgi_main and mlst non-empty gives "rgi_main and mlst".
C12_AnalysisValidFromPresence ==
    (lastOp.op = "read_data" /\ lastOp.ok) =>
        \A f \in DOMAIN disk :
            LET present == PresentCategories(disk[f])
                analysis_valid == Returned.main_df.rows[f].analysis_valid
            IN  /\ Len(present) = 4 => analysis_valid = "all"
                /\ Len(present) = 0 => analysis_valid = "None"
                /\ Len(present) \in 1..3 => analysis_valid = JoinAnd(present)
                /\ present = <<"rgi_main", "mlst">> =>
                        analysis_valid = "rgi_main and mlst"

\* A load of one sample with exactly the first and third category present and
\* one with none.
C12_Witness ==
    /\ lastOp.op = "read_data" /\ lastOp.ok
    /\ \E f \in files(Returned), g \in files(Returned) :
        /\ PresentCategories(disk[f]) = <<"rgi_main", "mlst">>
        /\ Returned.main_df.rows[f].analysis_valid = "rgi_main and mlst"
        /\ PresentCategories(disk[g]) = <<>>
        /\ Returned.main_df.rows[g].analysis_valid = "None"

\* A load that raised because a document lacks a category key.
C12_AbsentCategoryAbortsLoad ==
    /\ lastOp.op = "read_data" /\ ~lastOp.ok /\ lastOp.err = "TypeError"
    /\ \E f \in DOMAIN disk : disk[f].missing # {}

\* C13: select with a table other than 'main' and 'rgi', or with table 'main'
\* and a by other than 'time', raises, returns no Dataset and leaves every
\* Dataset as it was; select('main', 'time', start, end) returns the Dataset
\* of the samples with start <= timestamp <= end; select('rgi', by, ...)
\* returns the Dataset narrowed to what the Resistance-Call Index selects for
\* the same by and arguments, and raises when the Index raises.
C13_UnknownSelectorRaises ==
    lastOp.op = "select" =>
        LET table == lastOp.table
            by == lastOp.by
            rgi_parser_subset == RGIParser_select(Source.rgi_df, by, lastOp.kwargs)
        IN  /\ (table \notin {"main", "rgi"} \/ (table = "main" /\ by # "time")) =>
                    /\ ~lastOp.ok /\ lastOp.err = "Exception" /\ lastOp.ret = 0
                    /\ store = lastOp.before
            /\ (table = "main" /\ by = "time") =>
                    /\ lastOp.ok
                    /\ files(Returned) =
                        {k \in files(Source) :
                            /\ Source.main_df.rows[k].timestamp >= lastOp.kwargs.start
                            /\ Source.main_df.rows[k].timestamp <= lastOp.kwargs.end}
            /\ table = "rgi" =>
                    /\ lastOp.ok = rgi_parser_subset.ok
                    /\ lastOp.ok => /\ Returned.rgi_df = rgi_parser_subset.val
                                    /\ files(Returned) = RGIParser_files(rgi_parser_subset.val)

\* A select on a table that is neither 'main' nor 'rgi', made on a Dataset that
\* an earlier time selection returned.
C13_Witness ==
    /\ lastOp.op = "select" /\ lastOp.table = "lmat" /\ lastOp.by = "time"
    /\ ~lastOp.ok /\ lastOp.src = 2 /\ Len(store) = 2
    /\ files(store[2]) # {} /\ files(store[2]) # files(store[1])

\* select('main', by) with a by that is not 'time'.
C13_WitnessMainOtherBy ==
    /\ lastOp.op = "select" /\ lastOp.table = "main" /\ lastOp.by = "cutoff"
    /\ ~lastOp.ok /\ lastOp.ret = 0

\* A time selection whose bounds are timestamps of samples, both kept.
C13_WitnessInclusive ==
    /\ lastOp.op = "select" /\ lastOp.table = "main" /\ lastOp.by = "time" /\ lastOp.ok
    /\ lastOp.kwargs.start < lastOp.kwargs.end
    /\ \E f \in files(Returned), g \in files(Returned) :
        /\ Returned.main_df.rows[f].timestamp = lastOp.kwargs.start
        /\ Returned.main_df.rows[g].timestamp = lastOp.kwargs.end

====
